---- MODULE Spec2Model ----
(***************************************************************************)
(* Spectral peak extraction: peaks() of examples/hpcp/_muslib.py.          *)
(*                                                                         *)
(* One behaviour is one call of peaks() on one input (under RepeatSpec,    *)
(* followed by the caller's call of line 108 on the same spectrum).  The   *)
(* cursor loops are modelled one iteration per step.  Spectrum samples are *)
(* integers and every derived quantity (scale, bin positions, frequencies, *)
(* interpolated amplitudes) is an exact rational <<numerator, denominator>>*)
(* in lowest terms with a positive denominator, so the model is the real-  *)
(* number reading of the float code: rounding is not modelled.             *)
(***************************************************************************)
EXTENDS Integers, Sequences, FiniteSets, TLC

VARIABLES
    data,           \* the spectrum argument (a sequence of samples)
    sample_rate,    \* argument
    threshold,      \* argument
    max_frequency,  \* argument
    peaks,          \* local list of (pos, val) pairs
    i,              \* scan cursor
    j,              \* plateau cursor (bound at line 50, never read before)
    pc,             \* position in the function
    start,          \* history: the cursor at the top of the current outer pass
    passes,         \* history: outer passes begun by the current call
    interp,         \* history: arguments of every interpolate() call made
    broke,          \* history: the scan left through the break of line 68
    returned        \* history: what each completed call returned

vars == <<data, sample_rate, threshold, max_frequency, peaks, i, j, pc,
          start, passes, interp, broke, returned>>

---------------------------------------------------------------------------
(* Bounds of the checked input space.                                      *)
MaxLen == 5
MaxVal == 2

DefaultMaxFrequency == 5000

Values == 0..MaxVal
SampleRates == {1, 2}
Thresholds == {0, 1}
Ceilings == {0, 1, DefaultMaxFrequency}
NegativeCeiling == 0 - 1

Input(d, sr, thr, mf) ==
    [data |-> d, sample_rate |-> sr, threshold |-> thr, max_frequency |-> mf]

(* Inputs worked through by hand in the documentation of the algorithm,    *)
(* plus longer spectra with several peaks around a ceiling.                *)
Examples ==
    { Input(<<0, 1, 5, 1, 0>>, 10, 0, DefaultMaxFrequency),
      Input(<<0, 3, 3, 3, 0>>, 5, 0, DefaultMaxFrequency),
      Input(<<0, 3, 3, 3, 0, 0>>, 6, 0, DefaultMaxFrequency),
      Input(<<5, 1, 0>>, 1, 0, DefaultMaxFrequency),
      Input(<<0, 1, 0, 2, 0, 1, 0>>, 7, 0, 2),
      Input(<<3, 0, 2, 1, 4, 4, 1, 3, 0>>, 9, 1, 5) }

BoundedInputs ==
    { Input(d, sr, thr, mf) :
        d \in UNION { [1..n -> Values] : n \in 3..MaxLen },
        sr \in SampleRates, thr \in Thresholds, mf \in Ceilings }

(* Inputs outside the documented domain: a spectrum shorter than 3, a      *)
(* sample rate that is not positive, a negative ceiling.                   *)
InvalidInputs ==
    { Input(d, sr, thr, mf) :
        d \in UNION { [1..n -> Values] : n \in 0..2 },
        sr \in SampleRates \cup {0}, thr \in Thresholds,
        mf \in {NegativeCeiling, DefaultMaxFrequency} }
    \cup
    { Input(d, sr, thr, mf) :
        d \in UNION { [1..n -> Values] : n \in 3..(MaxLen - 1) },
        sr \in {0 - 1, 0}, thr \in Thresholds, mf \in {1, DefaultMaxFrequency} }
    \cup
    { Input(d, sr, thr, NegativeCeiling) :
        d \in UNION { [1..n -> Values] : n \in 3..(MaxLen - 1) },
        sr \in SampleRates, thr \in Thresholds }

---------------------------------------------------------------------------
(* Exact arithmetic standing for the float operations of the code.         *)
Abs(x) == IF x < 0 THEN 0 - x ELSE x

RECURSIVE GCD(_, _)
GCD(a, b) == IF b = 0 THEN a ELSE GCD(b, a % b)

Rat(n, d) ==
    LET g == GCD(Abs(n), Abs(d))
        s == IF d < 0 THEN 0 - 1 ELSE 1
    IN  <<(s * n) \div g, (s * d) \div g>>

FromInt(n) == <<n, 1>>
RAdd(a, b) == Rat(a[1] * b[2] + b[1] * a[2], a[2] * b[2])
RSub(a, b) == Rat(a[1] * b[2] - b[1] * a[2], a[2] * b[2])
RMul(a, b) == Rat(a[1] * b[1], a[2] * b[2])
RDiv(a, b) == Rat(a[1] * b[2], a[2] * b[1])
RLess(a, b) == a[1] * b[2] < b[1] * a[2]
RLeq(a, b) == a[1] * b[2] <= b[1] * a[2]

(* data[k] with Python's indexing: 0-based, a negative k counts from the   *)
(* end.                                                                    *)
At(d, k) == IF k >= 0 THEN d[k + 1] ELSE d[Len(d) + k + 1]

---------------------------------------------------------------------------
(* Locals computed once.                                                   *)
size == Len(data)
scale == RDiv(FromInt(sample_rate), FromInt(size))

(* interpolate(left, mid, right, c_bin): <<r_bin, r_val>>.  The division   *)
(* raises ZeroDivisionError when Degenerate.                               *)
Degenerate(left, mid, right) == left - 2 * mid + right = 0

delta_x(left, mid, right) ==
    RMul(<<1, 2>>, RDiv(FromInt(left - right), FromInt(left - 2 * mid + right)))

(* Mutant of interpolate: the amplitude correction added with the wrong   *)
(* weight.                                                                 *)
interpolate_half(left, mid, right, c_bin) ==
    LET dx == delta_x(left, mid, right)
    IN  << RAdd(FromInt(c_bin), dx),
           RSub(FromInt(mid), RMul(RMul(<<1, 2>>, FromInt(left - right)), dx)) >>

interpolate(left, mid, right, c_bin) ==
    LET dx == delta_x(left, mid, right)
    IN  << RAdd(FromInt(c_bin), dx),
           RSub(FromInt(mid), RMul(RMul(<<1, 4>>, FromInt(left - right)), dx)) >>

(* The conditions of the scan follow, each with the mutants used to test   *)
(* the properties below.                                                   *)
(* Mutants of BoundaryCond: the threshold test dropped; >= for >.          *)
BoundaryCond_nothr(d, k, thr) == k + 1 < Len(d) /\ At(d, k) > At(d, k + 1)

BoundaryCond_geq(d, k, thr) ==
    k + 1 < Len(d) /\ At(d, k) >= At(d, k + 1) /\ At(d, k) > thr

BoundaryCond(d, k, thr) ==
    k + 1 < Len(d) /\ At(d, k) > At(d, k + 1) /\ At(d, k) > thr

FallingCond(d, k) == k + 1 < Len(d) - 1 /\ At(d, k) >= At(d, k + 1)

RisingCond(d, k) == k + 1 < Len(d) - 1 /\ At(d, k) < At(d, k + 1)

PlateauCond(d, k) == k + 1 < Len(d) - 1 /\ At(d, k) = At(d, k + 1)

(* Mutant of DirectionDown: the bound on the plateau end dropped.          *)
DirectionDown_nobound(d, k, thr) == At(d, k + 1) < At(d, k) /\ At(d, k) > thr

DirectionDown(d, k, thr) ==
    k + 1 < Len(d) - 1 /\ At(d, k + 1) < At(d, k) /\ At(d, k) > thr

(* Mutant of PlateauBin: the halving forgotten.                            *)
PlateauBin_sum(a, b) == FromInt(a + b)

PlateauBin(a, b) == RMul(FromInt(a + b), <<1, 2>>)

(* Where the scan goes when a candidate is too far (line 68: break); its  *)
(* mutant is a continue: back to the top of the outer loop.                *)
BreakTarget_continue == "falling"

BreakTarget == "return"

TooFar(p, mf) == RLess(FromInt(mf), p)

(* Mutant of AtEnd: the end test off by one.                               *)
AtEnd_late(k, n) == k + 1 >= n

AtEnd(k, n) == k + 1 >= n - 1

(* Mutant of TrailingCond: the left neighbour not compared.                *)
TrailingCond_noleft(d, k, thr) ==
    /\ k = Len(d) - 2
    /\ At(d, k + 1) < At(d, k)
    /\ At(d, k) > thr

TrailingCond(d, k, thr) ==
    /\ k = Len(d) - 2
    /\ At(d, k - 1) < At(d, k)
    /\ At(d, k + 1) < At(d, k)
    /\ At(d, k) > thr

---------------------------------------------------------------------------
Fresh ==
    /\ peaks = <<>>
    /\ i = 0
    /\ j = 0
    /\ pc = "call"
    /\ start = 0
    /\ passes = 0
    /\ interp = <<>>
    /\ broke = FALSE

Init ==
    /\ \E in \in BoundedInputs \cup Examples :
          /\ data = in.data
          /\ sample_rate = in.sample_rate
          /\ threshold = in.threshold
          /\ max_frequency = in.max_frequency
    /\ Fresh
    /\ returned = <<>>

InitInvalid ==
    /\ \E in \in InvalidInputs :
          /\ data = in.data
          /\ sample_rate = in.sample_rate
          /\ threshold = in.threshold
          /\ max_frequency = in.max_frequency
    /\ Fresh
    /\ returned = <<>>

args == <<data, sample_rate, threshold, max_frequency>>

(* Lines 33-40: size, scale, the empty list, the cursor, the bin-0 peak.   *)
Call ==
    /\ pc = "call"
    /\ IF size = 0
       THEN /\ pc' = "raised"
            /\ UNCHANGED <<peaks, i, start, passes>>
       ELSE /\ i' = 0
            /\ peaks' = IF BoundaryCond(data, 0, threshold)
                        THEN <<  <<RMul(FromInt(0), scale), FromInt(At(data, 0))>>  >>
                        ELSE <<>>
            /\ start' = 0
            /\ passes' = 1
            /\ pc' = "falling"
    /\ UNCHANGED <<args, j, interp, broke, returned>>

(* Lines 44-45.                                                            *)
Falling ==
    /\ pc = "falling"
    /\ IF FallingCond(data, i)
       THEN i' = i + 1 /\ pc' = pc
       ELSE i' = i /\ pc' = "rising"
    /\ UNCHANGED <<args, peaks, j, start, passes, interp, broke, returned>>

(* Lines 46-47, and line 50 on leaving the loop.                           *)
Rising ==
    /\ pc = "rising"
    /\ IF RisingCond(data, i)
       THEN i' = i + 1 /\ pc' = pc /\ j' = j
       ELSE i' = i /\ j' = i /\ pc' = "plateau"
    /\ UNCHANGED <<args, peaks, start, passes, interp, broke, returned>>

(* Lines 51-52.                                                            *)
Plateau ==
    /\ pc = "plateau"
    /\ IF PlateauCond(data, j)
       THEN j' = j + 1 /\ pc' = pc
       ELSE j' = j /\ pc' = "direction"
    /\ UNCHANGED <<args, peaks, i, start, passes, interp, broke, returned>>

(* Lines 55-73.                                                            *)
Direction ==
    /\ pc = "direction"
    /\ IF DirectionDown(data, j, threshold)
       THEN LET left == At(data, j - 1)
                mid == At(data, j)
                right == At(data, j + 1)
            IN  IF j = i /\ Degenerate(left, mid, right)
                THEN /\ pc' = "raised"
                     /\ interp' = Append(interp, <<left, mid, right, j>>)
                     /\ UNCHANGED <<peaks, i, broke>>
                ELSE LET bv == IF j # i
                               THEN <<PlateauBin(i, j), FromInt(At(data, i))>>
                               ELSE interpolate(left, mid, right, j)
                         p == RMul(bv[1], scale)
                     IN  /\ interp' = IF j # i THEN interp
                                      ELSE Append(interp, <<left, mid, right, j>>)
                         /\ IF TooFar(p, max_frequency)
                            THEN /\ broke' = TRUE
                                 /\ pc' = BreakTarget
                                 /\ UNCHANGED <<peaks, i>>
                            ELSE /\ peaks' = Append(peaks, <<p, bv[2]>>)
                                 /\ i' = j
                                 /\ pc' = "end"
                                 /\ UNCHANGED broke
       ELSE /\ i' = j
            /\ pc' = "end"
            /\ UNCHANGED <<peaks, interp, broke>>
    /\ UNCHANGED <<args, j, start, passes, returned>>

(* Lines 76-88.                                                            *)
EndOfData ==
    /\ pc = "end"
    /\ IF AtEnd(i, size)
       THEN /\ IF TrailingCond(data, i, threshold)
               THEN LET left == At(data, i - 1)
                        mid == At(data, i)
                        right == At(data, i + 1)
                    IN  /\ interp' = Append(interp, <<left, mid, right, j>>)
                        /\ IF Degenerate(left, mid, right)
                           THEN pc' = "raised" /\ UNCHANGED peaks
                           ELSE LET bv == interpolate(left, mid, right, j)
                                IN  /\ peaks' = Append(peaks, <<RMul(bv[1], scale), bv[2]>>)
                                    /\ pc' = "return"
               ELSE pc' = "return" /\ UNCHANGED <<peaks, interp>>
            /\ UNCHANGED <<start, passes>>
       ELSE /\ pc' = "falling"
            /\ start' = i
            /\ passes' = passes + 1
            /\ UNCHANGED <<peaks, interp>>
    /\ UNCHANGED <<args, i, j, broke, returned>>

(* Lines 90-93.                                                            *)
Return ==
    /\ pc = "return"
    /\ pc' = "done"
    /\ returned' = Append(returned,
          [max_frequency |-> max_frequency,
           positions |-> [k \in 1..Len(peaks) |-> peaks[k][1]],
           amplitudes |-> [k \in 1..Len(peaks) |-> peaks[k][2]]])
    /\ UNCHANGED <<args, peaks, i, j, start, passes, interp, broke>>

(* Line 108: the caller's form of the call, which passes the spectrum, the *)
(* sample rate and the threshold and leaves max_frequency at its default.  *)
Recall ==
    /\ pc = "done"
    /\ \A k \in 1..Len(returned) : returned[k].max_frequency # DefaultMaxFrequency
    /\ max_frequency' = DefaultMaxFrequency
    /\ peaks' = <<>>
    /\ i' = 0
    /\ j' = 0
    /\ pc' = "call"
    /\ start' = 0
    /\ passes' = 0
    /\ interp' = <<>>
    /\ broke' = FALSE
    /\ UNCHANGED <<data, sample_rate, threshold, returned>>

Next == Call \/ Falling \/ Rising \/ Plateau \/ Direction \/ EndOfData \/ Return

NextRepeat == Next \/ Recall

Spec == Init /\ [][Next]_vars

RepeatSpec == Init /\ [][NextRepeat]_vars

InvalidSpec == InitInvalid /\ [][Next]_vars

---------------------------------------------------------------------------
(* Vocabulary of the properties.                                           *)
ValidInput == size >= 3 /\ sample_rate > 0 /\ max_frequency >= 0

Freq(k) == peaks[k][1]
Amp(k) == peaks[k][2]

(* The peaks recorded at frequency f.                                      *)
PeaksAt(f) == { k \in 1..Len(peaks) : Freq(k) = f }

(* Exactly one peak is recorded at frequency f, and its amplitude is v.    *)
OnePeak(f, v) ==
    /\ Cardinality(PeaksAt(f)) = 1
    /\ \A k \in PeaksAt(f) : Amp(k) = v

(* Bins a..b (0-based, a < b) are a plateau entered by a strict rise and   *)
(* followed by a strictly lower bin, above the threshold.                  *)
RaisedPlateau(a, b) ==
    /\ 1 <= a /\ a < b /\ b <= size - 2
    /\ At(data, a - 1) < At(data, a)
    /\ \A k \in a..b : At(data, k) = At(data, a)
    /\ At(data, b + 1) < At(data, b)
    /\ At(data, a) > threshold

PlateauFreq(a, b) == Rat((a + b) * sample_rate, 2 * size)

(* Bin b (0-based) is a strict single-bin local maximum above threshold.   *)
StrictMax(b) ==
    /\ 1 <= b /\ b <= size - 2
    /\ At(data, b - 1) < At(data, b)
    /\ At(data, b + 1) < At(data, b)
    /\ At(data, b) > threshold

(* The documented refinement of the peak at bin b, written out.            *)
ExpectedDelta(b) ==
    Rat(At(data, b - 1) - At(data, b + 1),
        2 * (At(data, b - 1) - 2 * At(data, b) + At(data, b + 1)))

ExpectedFreq(b) ==
    RMul(RAdd(FromInt(b), ExpectedDelta(b)), Rat(sample_rate, size))

ExpectedAmp(b) ==
    RSub(FromInt(At(data, b)),
         RMul(Rat(At(data, b - 1) - At(data, b + 1), 4), ExpectedDelta(b)))

IsPrefix(s, t) == Len(s) <= Len(t) /\ \A k \in 1..Len(s) : s[k] = t[k]

---------------------------------------------------------------------------
(* C1: on valid input no frequency held in the peak list exceeds           *)
(* max_frequency, the trailing peak of the end-of-data check included.     *)
CeilingRespected ==
    ValidInput => \A k \in 1..Len(peaks) : RLeq(Freq(k), FromInt(max_frequency))

FrequenciesIncreasing ==
    ValidInput => \A k \in 1..(Len(peaks) - 1) : RLess(Freq(k), Freq(k + 1))

(* A returned list holding a bin-0 peak, an interpolated peak, a plateau   *)
(* peak and the trailing peak.                                             *)
FrequenciesIncreasingWitness ==
    /\ pc = "done"
    /\ Len(peaks) = 4
    /\ Freq(1) = FromInt(0)
    /\ Len(interp) = 2
    /\ interp[2][4] = size - 2

(* C4: on valid input every amplitude in the peak list is strictly above   *)
(* threshold.                                                              *)
ThresholdRespected ==
    ValidInput => \A k \in 1..Len(peaks) : RLess(FromInt(threshold), Amp(k))

(* A returned list with a bin-0 peak and an interpolated peak whose        *)
(* refined amplitude is not a sample value, under a threshold that         *)
(* excludes some samples.                                                  *)
ThresholdRespectedWitness ==
    /\ pc = "done"
    /\ threshold = 1
    /\ Len(peaks) >= 2
    /\ Freq(1) = FromInt(0)
    /\ \E k \in 1..Len(peaks) : Amp(k)[2] # 1
    /\ \E k \in 1..size : data[k] = threshold

(* C5: once a candidate of the main scan is above max_frequency the scan   *)
(* is over: the call goes to its return with the list as it was, nothing   *)
(* is appended afterwards, and the result is a prefix of what the same     *)
(* spectrum, sample rate and threshold give under the default ceiling,     *)
(* which is above every frequency and never stops a scan.                  *)
StopsAtCeiling ==
    /\ [](/\ broke => pc \in {"return", "done"}
          /\ max_frequency = DefaultMaxFrequency => ~broke
          /\ \A a \in 1..Len(returned), b \in 1..Len(returned) :
                returned[b].max_frequency = DefaultMaxFrequency
                => /\ IsPrefix(returned[a].positions, returned[b].positions)
                   /\ IsPrefix(returned[a].amplitudes, returned[b].amplitudes))
    /\ [][broke' /\ pc' # "call" => peaks' = peaks]_vars

(* Both calls have returned: the first kept a peak and lost later ones to  *)
(* the ceiling, the trailing peak among them.                              *)
StopsAtCeilingWitness ==
    /\ pc = "done"
    /\ Len(returned) = 2
    /\ Len(returned[1].positions) >= 1
    /\ Len(returned[2].positions) >= Len(returned[1].positions) + 2
    /\ Len(interp) >= 1
    /\ interp[Len(interp)][4] = size - 2

(* C6: on return from a scan the ceiling did not stop, every strict        *)
(* single-bin local maximum above threshold at an interior bin b           *)
(* (1 <= b <= N-2) is returned as exactly one peak, at frequency           *)
(* (b + delta_x) * sample_rate / N with amplitude                          *)
(* mid - 0.25 * (left - right) * delta_x; peaks([0,1,5,1,0],               *)
(* sample_rate=10) returns exactly the peak (4.0, 5.0).                    *)
SinglePeakInterpolated ==
    (pc = "done" /\ ValidInput /\ ~broke) =>
        /\ \A b \in 1..size :
              StrictMax(b) => OnePeak(ExpectedFreq(b), ExpectedAmp(b))
        /\ (data = <<0, 1, 5, 1, 0>> /\ sample_rate = 10 /\ threshold = 0)
              => peaks = << <<FromInt(4), FromInt(5)>> >>

(* Two refined peaks, one of the main scan and the trailing one, both      *)
(* moved off their bins.                                                   *)
SinglePeakInterpolatedWitness ==
    /\ pc = "done"
    /\ ~broke
    /\ \E b \in 1..size, c \in 1..size :
          /\ b < c /\ c = size - 2
          /\ StrictMax(b) /\ StrictMax(c)
          /\ ExpectedDelta(b)[1] # 0 /\ ExpectedDelta(c)[1] # 0
          /\ OnePeak(ExpectedFreq(b), ExpectedAmp(b))
          /\ OnePeak(ExpectedFreq(c), ExpectedAmp(c))

(* C7: on valid input, once the boundary check has run, the peak list      *)
(* holds a peak at frequency 0 if and only if data[0] > data[1] and        *)
(* data[0] > threshold; that peak is then the first of the list, the only  *)
(* one at frequency 0, and its amplitude is data[0]; [5,1,0] with          *)
(* threshold 0 gives the first peak (0, 5).                                *)
BoundaryPeak ==
    (pc # "call" /\ ValidInput) =>
        /\ (PeaksAt(FromInt(0)) # {})
              <=> (At(data, 0) > At(data, 1) /\ At(data, 0) > threshold)
        /\ (PeaksAt(FromInt(0)) # {})
              => /\ PeaksAt(FromInt(0)) = {1}
                 /\ peaks[1] = <<FromInt(0), FromInt(At(data, 0))>>
        /\ data = <<5, 1, 0>> => peaks[1] = <<FromInt(0), FromInt(5)>>

BoundaryPeakWitness ==
    /\ pc = "done"
    /\ data = <<5, 1, 0>>
    /\ peaks = << <<FromInt(0), FromInt(5)>> >>

(* C8: a call on invalid input (a spectrum shorter than 3, sample_rate     *)
(* <= 0 or max_frequency < 0) never gets past its entry: it raises before  *)
(* any scanning and returns nothing.                                       *)
InvalidInputRejected ==
    ~ValidInput => (pc \in {"call", "raised"} /\ returned = <<>>)

(* The measure of the work a call has left: the passes and bins still     *)
(* ahead, then the position within the pass.                               *)
Stage ==
    CASE pc = "call" -> 6
      [] pc = "falling" -> 6
      [] pc = "rising" -> 5
      [] pc = "plateau" -> 4
      [] pc = "direction" -> 3
      [] pc = "end" -> 2
      [] pc = "return" -> 1
      [] OTHER -> 0

Measure == 5 * (size - passes) + (2 * size - i - j) + Stage

(* C9: on valid input the scan terminates: every outer pass that reaches   *)
(* its end has moved the cursor strictly forward, a call begins at most    *)
(* N-2 outer passes, every step of the call lowers a measure that is never *)
(* negative (the passes and bins still ahead, then the position within the *)
(* pass), and the call never ends in an exception.                         *)
ScanTerminates ==
    /\ [](ValidInput => /\ passes <= size - 2
                        /\ pc = "end" => i > start
                        /\ Measure >= 0
                        /\ pc # "raised")
    /\ [][Measure' < Measure]_vars

ScanTerminatesWitness ==
    /\ pc = "done"
    /\ passes >= 3

(* C10: on valid input every interpolate(left, mid, right, c_bin) call has *)
(* 1 <= c_bin <= N-2, left < mid and right < mid, so left - 2*mid + right  *)
(* is negative, the division never fails, and -0.5 < delta_x < 0.5.        *)
InterpolateWellDefined ==
    ValidInput =>
        /\ pc # "raised"
        /\ \A k \in 1..Len(interp) :
              LET left == interp[k][1]
                  mid == interp[k][2]
                  right == interp[k][3]
                  c_bin == interp[k][4]
              IN  /\ 1 <= c_bin /\ c_bin <= size - 2
                  /\ left < mid /\ right < mid
                  /\ left - 2 * mid + right < 0
                  /\ RLess(<<0 - 1, 2>>, delta_x(left, mid, right))
                  /\ RLess(delta_x(left, mid, right), <<1, 2>>)

(* A call from the main scan and one from the end-of-data check, with      *)
(* shifts of both signs.                                                   *)
InterpolateWellDefinedWitness ==
    /\ pc = "done"
    /\ Len(interp) = 2
    /\ interp[1][4] < size - 2
    /\ interp[2][4] = size - 2
    /\ RLess(FromInt(0), delta_x(interp[1][1], interp[1][2], interp[1][3]))
    /\ RLess(delta_x(interp[2][1], interp[2][2], interp[2][3]), FromInt(0))

====
